---- MODULE Spec2Model ----
(***************************************************************************)
(* A model of the github_release_version filter of                         *)
(* plugins/filter/github_release_version.py.                               *)
(*                                                                         *)
(* Texts (labels, keys) are sequences of one-character strings, so that    *)
(* the two regular expressions of the filter are modelled by what they do  *)
(* on the characters.  Python values whose type matters to the code (a     *)
(* str against an re.Match, a str against a list) carry their type.        *)
(***************************************************************************)
EXTENDS Integers, Sequences, FiniteSets, TLC

\* ------------------------------------------------------------------ bounds

\* The longest input list of labels.
MaxLabels == 2

\* The longest key text of the key-parser specification.
MaxKeyLen == 7

\* ------------------------------------------------------------- characters

NL == "\n"

Digits == {"0", "1", "2", "3", "4", "5", "6", "7", "8", "9"}

\* \d of the patterns (on the characters of the model).
IsDigit(c) == c \in Digits

\* int() of one digit.
DigitVal(c) ==
    CASE c = "0" -> 0 [] c = "1" -> 1 [] c = "2" -> 2 [] c = "3" -> 3
      [] c = "4" -> 4 [] c = "5" -> 5 [] c = "6" -> 6 [] c = "7" -> 7
      [] c = "8" -> 8 [] c = "9" -> 9

\* int(text) of a text of digits.
RECURSIVE IntOf(_)
IntOf(t) ==
    IF t = <<>> THEN 0
    ELSE IntOf(SubSeq(t, 1, Len(t) - 1)) * 10 + DigitVal(t[Len(t)])

\* The position after the longest run of digits that starts at position i
\* (i itself when there is none): \d+ is greedy, and in both patterns what
\* follows \d+ is never a digit, so no shorter run can lead to a match.
RECURSIVE DigitRun(_, _)
DigitRun(s, i) ==
    IF i <= Len(s) /\ IsDigit(s[i]) THEN DigitRun(s, i + 1) ELSE i

\* The position after the longest run of characters other than a line break
\* that starts at position i: the greedy .+ (. does not match a line break).
RECURSIVE DotRun(_, _)
DotRun(s, i) ==
    IF i <= Len(s) /\ s[i] # NL THEN DotRun(s, i + 1) ELSE i

\* $ at position i: the end of the text, or just before a final line break.
AtDollar(s, i) == i = Len(s) + 1 \/ (i = Len(s) /\ s[i] = NL)

\* s[i] = c, false beyond the end of the text.
CharAt(s, i, c) == i <= Len(s) /\ s[i] = c

\* --------------------------------------------------------- Python values

\* A group of a match that did not take part is None.
NoGroup == [present |-> FALSE, text |-> <<>>]
Group(t) == [present |-> TRUE, text |-> t]

PyNone == [type |-> "NoneType", val |-> <<>>]
PyStr(t) == [type |-> "str", val |-> t]
PyList(l) == [type |-> "list", val |-> l]
PyMatch(g) == [type |-> "re.Match", val |-> g]

IsNone(v) == v.type = "NoneType"

\* a == b of two Python values: values of different types are never equal
\* (an re.Match object has no equality with a str).
PyEq(a, b) == a.type = b.type /\ a.val = b.val

\* The elements a for-loop or a comprehension draws from a value: the
\* elements of a list, the characters of a str.
PyIter(v) == v.val

\* ------------------------------------------------------- version_name_matcher

\* (\-(?P<decorator>.+))?$ at position j: the decorator group and the end
\* of the match, or no match.  A shorter .+ ends before a character that is
\* no line break, where $ cannot match.
NameTail(s, j) ==
    LET e == DotRun(s, j + 1)
    IN  IF CharAt(s, j, "-") /\ e > j + 1 /\ AtDollar(s, e)
        THEN [ok |-> TRUE, decorator |-> Group(SubSeq(s, j + 1, e - 1)), end |-> e]
        ELSE IF AtDollar(s, j)
        THEN [ok |-> TRUE, decorator |-> NoGroup, end |-> j]
        ELSE [ok |-> FALSE, decorator |-> NoGroup, end |-> j]

\* The pattern tried at start position i.
NameMatchAt(s, i) ==
    LET a == DigitRun(s, i)
        b == DigitRun(s, a + 1)
        c == DigitRun(s, b + 1)
        t == NameTail(s, c)
    IN  IF a > i /\ CharAt(s, a, ".") /\ b > a + 1 /\ CharAt(s, b, ".")
           /\ c > b + 1 /\ t.ok
        THEN PyMatch([group     |-> SubSeq(s, i, t.end - 1),
                      major     |-> Group(SubSeq(s, i, a - 1)),
                      minor     |-> Group(SubSeq(s, a + 1, b - 1)),
                      point     |-> Group(SubSeq(s, b + 1, c - 1)),
                      decorator |-> t.decorator])
        ELSE PyNone

\* The search from start position i on: the match at the leftmost start
\* position that has one, None when no position has.
RECURSIVE NameSearchFrom(_, _)
NameSearchFrom(s, i) ==
    IF i > Len(s) THEN PyNone
    ELSE IF IsNone(NameMatchAt(s, i)) THEN NameSearchFrom(s, i + 1)
    ELSE NameMatchAt(s, i)

\* version_name_matcher.search(version).
version_name_search(version) == NameSearchFrom(version, 1)

\* -------------------------------------------------------- version_key_matcher

\* version_key_matcher.match(key) with the final $ left out: the match need
\* not reach the end of the text.
version_key_match_prefix(key) ==
    LET a  == DigitRun(key, 1)
        b  == DigitRun(key, a + 1)
        c  == DigitRun(key, b + 1)
        e  == DotRun(key, c + 1)
        g2 == a > 1 /\ CharAt(key, a, ".") /\ b > a + 1
        g3 == g2 /\ CharAt(key, b, ".") /\ c > b + 1
        g4 == g3 /\ CharAt(key, c, "-") /\ e > c + 1
    IN  IF a > 1
        THEN PyMatch([group     |-> key,
                      major     |-> Group(SubSeq(key, 1, a - 1)),
                      minor     |-> IF g2 THEN Group(SubSeq(key, a + 1, b - 1)) ELSE NoGroup,
                      point     |-> IF g3 THEN Group(SubSeq(key, b + 1, c - 1)) ELSE NoGroup,
                      decorator |-> IF g4 THEN Group(SubSeq(key, c + 1, e - 1)) ELSE NoGroup])
        ELSE PyNone

\* version_key_matcher.fullmatch(key).  Each optional group is taken when it
\* can be (greedy); fullmatch needs the match to end at the end of the text,
\* and leaving a group out, or shortening .+, only ends the match earlier.
version_key_fullmatch(key) ==
    LET a  == DigitRun(key, 1)
        b  == DigitRun(key, a + 1)
        c  == DigitRun(key, b + 1)
        e  == DotRun(key, c + 1)
        g2 == a > 1 /\ CharAt(key, a, ".") /\ b > a + 1
        g3 == g2 /\ CharAt(key, b, ".") /\ c > b + 1
        g4 == g3 /\ CharAt(key, c, "-") /\ e > c + 1
        end == IF g4 THEN e ELSE IF g3 THEN c ELSE IF g2 THEN b ELSE a
    IN  IF a > 1 /\ end = Len(key) + 1
        THEN PyMatch([group     |-> key,
                      major     |-> Group(SubSeq(key, 1, a - 1)),
                      minor     |-> IF g2 THEN Group(SubSeq(key, a + 1, b - 1)) ELSE NoGroup,
                      point     |-> IF g3 THEN Group(SubSeq(key, b + 1, c - 1)) ELSE NoGroup,
                      decorator |-> IF g4 THEN Group(SubSeq(key, c + 1, e - 1)) ELSE NoGroup])
        ELSE PyNone

\* ------------------------------------------------- sort_versions_ascending

\* The outcome of a function that may raise.
Returned(v) == [raised |-> FALSE, error |-> "", message |-> "", value |-> v]
Raised(e, m) == [raised |-> TRUE, error |-> e, message |-> m, value |-> PyNone]

\* The dict appended for a label and the groups m of its match.
VersionInfo(version, m) ==
    [stripped_version_label |-> m.group,
     full_label             |-> version,
     major                  |-> IntOf(m.major.text),
     minor                  |-> IntOf(m.minor.text),
     point                  |-> IntOf(m.point.text),
     decorator              |-> IF m.decorator.present THEN m.decorator.text ELSE <<>>]

\* itemgetter("major", "minor", "point") tuples compared with <=.
KeyLE(x, y) ==
    \/ x.major < y.major
    \/ x.major = y.major /\ x.minor < y.minor
    \/ x.major = y.major /\ x.minor = y.minor /\ x.point <= y.point

\* An element put into a sorted list after every element whose key is not
\* greater.
InsertedLast(front, x) ==
    LET n == Cardinality({i \in 1..Len(front) : KeyLE(front[i], x)})
    IN  SubSeq(front, 1, n) \o <<x>> \o SubSeq(front, n + 1, Len(front))

\* sorted(version_info, key=...) is a stable sort: elements with equal keys
\* keep the order they came in.
RECURSIVE StableSorted(_)
StableSorted(infos) ==
    IF Len(infos) = 0 THEN <<>>
    ELSE InsertedLast(StableSorted(SubSeq(infos, 1, Len(infos) - 1)), infos[Len(infos)])

\* Whether the loop over the labels raises: some label has no match.
SomeLabelUnmatched(found) == \E i \in 1..Len(found) : IsNone(found[i])

\* The function from the matches of the labels on.
SortedFound(versions, found) ==
    IF SomeLabelUnmatched(found)
    THEN Raised("AnsibleFilterError", "incoming version is not in accepted format")
    ELSE Returned(PyList(StableSorted(
             [i \in 1..Len(versions) |-> VersionInfo(versions[i], found[i].val)])))

\* sort_versions_ascending with a continue for the raise: a label without a
\* match is skipped.
sort_versions_skipping_unmatched(versions) ==
    LET Matched(v) == ~IsNone(version_name_search(v))
        kept == SelectSeq(versions, Matched)
    IN  SortedFound(kept, [i \in 1..Len(kept) |-> version_name_search(kept[i])])

sort_versions_ascending(versions) ==
    SortedFound(versions, [i \in 1..Len(versions) |-> version_name_search(versions[i])])

\* ---------------------------------------- filter_out_decorated_versions_from

\* The filter with its test left out.
KeepsVersionAlways(i) == TRUE

KeepsVersion(i) == i.decorator = <<>>

filter_out_decorated_versions_from(versions_list) ==
    LET Test(i) == KeepsVersion(i) IN SelectSeq(versions_list, Test)

\* ----------------------------------------------------------- match_latest

\* match_latest with index 0 for the last index.
LatestOfFirst(sorted_input_versions) == <<sorted_input_versions[1]>>

LatestOf(sorted_input_versions) ==
    <<sorted_input_versions[Len(sorted_input_versions)]>>

match_latest(sorted_input_versions) ==
    IF Len(sorted_input_versions) = 0
    THEN Returned(PyStr(<<>>))
    ELSE Returned(PyList(LatestOf(sorted_input_versions)))

\* --------------------------------------------------------------- match_eq

\* The comparison of the decorated-key branch: by then the name key is bound
\* to the re.Match object, not to the key text.
EqLabelTest(parsed_version, key) == PyEq(PyStr(parsed_version.full_label), key)

EqPointTest(parsed_version, wanted_point_version) ==
    parsed_version.point = wanted_point_version

\* EqMinorTest with <= for ==.
EqMinorTestAtMost(parsed_version, wanted_minor_version) ==
    parsed_version.minor <= wanted_minor_version

EqMinorTest(parsed_version, wanted_minor_version) ==
    parsed_version.minor = wanted_minor_version

EqMajorTest(parsed_version, wanted_major_version) ==
    parsed_version.major = wanted_major_version

\* The narrowing by major, then minor, then point, for the groups g of the
\* key: a narrowing under an if that does not hold keeps every element.
EqNarrowed(sorted_input_versions, g) ==
    LET Test(pv) ==
            /\ EqMajorTest(pv, IntOf(g.major.text))
            /\ g.minor.present => EqMinorTest(pv, IntOf(g.minor.text))
            /\ g.point.present => EqPointTest(pv, IntOf(g.point.text))
    IN  SelectSeq(sorted_input_versions, Test)

\* The elements whose full label is == key.
EqLabelled(sorted_input_versions, key) ==
    LET Test(pv) == EqLabelTest(pv, key)
    IN  SelectSeq(sorted_input_versions, Test)

\* match_eq with an empty result for the raise on a key that is None.
EqOfKeyLenient(sorted_input_versions, key) ==
    IF IsNone(key)
    THEN Returned(PyList(<<>>))
    ELSE IF key.val.decorator.present
    THEN Returned(PyList(EqLabelled(sorted_input_versions, key)))
    ELSE Returned(PyList(EqNarrowed(sorted_input_versions, key.val)))

\* match_eq once key is bound to what fullmatch gave: the match or None.
EqOfKey(sorted_input_versions, key) ==
    IF IsNone(key)
    THEN Raised("AnsibleFilterError", "match key is not valid")
    ELSE IF key.val.decorator.present
    THEN Returned(PyList(EqLabelled(sorted_input_versions, key)))
    ELSE Returned(PyList(EqNarrowed(sorted_input_versions, key.val)))

match_eq(sorted_input_versions, key) ==
    EqOfKey(sorted_input_versions, version_key_fullmatch(key))

\* ------------------------------------------------------ match_gte, match_lte

\* A while loop that advances the pointer n (1-based here) while it is in
\* the list and the loop's condition holds of the element it is at: where
\* the loop stops.  cond[j] is the condition taken of the j-th element.
AdvanceWhile(cond, n) ==
    CHOOSE m \in n..(Len(cond) + 1) :
        /\ \A j \in n..(m - 1) : cond[j]
        /\ m = Len(cond) + 1 \/ ~cond[m]

\* The condition of the first loop of both functions.
MajorBelowCond(v, wanted_major_version) == v.major < wanted_major_version

\* The condition of the second loop of both functions.
MinorBelowCond(v, wanted_major_version, wanted_minor_version) ==
    /\ v.major = wanted_major_version
    /\ v.minor < wanted_minor_version

\* GtePointCond with <= for <: the record at the key is skipped.
GtePointCondInclusive(v, wanted_major_version, wanted_minor_version, wanted_point_version) ==
    /\ v.major = wanted_major_version
    /\ v.minor = wanted_minor_version
    /\ v.point <= wanted_point_version

GtePointCond(v, wanted_major_version, wanted_minor_version, wanted_point_version) ==
    /\ v.major = wanted_major_version
    /\ v.minor = wanted_minor_version
    /\ v.point < wanted_point_version

\* The three loops of match_gte, one after the other, for the groups g of
\* the key: a loop under an if that does not hold is a loop whose condition
\* never holds.
GteStart(vs, g) ==
    LET C1(v) == MajorBelowCond(v, IntOf(g.major.text))
        C2(v) == /\ g.minor.present
                 /\ MinorBelowCond(v, IntOf(g.major.text), IntOf(g.minor.text))
        C3(v) == /\ g.minor.present
                 /\ g.point.present
                 /\ GtePointCond(v, IntOf(g.major.text), IntOf(g.minor.text),
                                 IntOf(g.point.text))
        Of(j)  == vs[j]
        cond1  == [j \in 1..Len(vs) |-> C1(Of(j))]
        cond2  == [j \in 1..Len(vs) |-> C2(Of(j))]
        cond3  == [j \in 1..Len(vs) |-> C3(Of(j))]
    IN  AdvanceWhile(cond3, AdvanceWhile(cond2, AdvanceWhile(cond1, 1)))

\* GteOfKey without the test of the decorator: the key's decorator is
\* passed over and the list from the key's numbers on is returned.
GteOfKeyIgnoringDecorator(sorted_input_versions, key_matcher) ==
    IF IsNone(key_matcher)
    THEN Raised("AnsibleFilterError", "match key is not valid")
    ELSE Returned(PyList(SubSeq(sorted_input_versions,
                                GteStart(sorted_input_versions, key_matcher.val),
                                Len(sorted_input_versions))))

\* match_gte once the key is matched: key_matcher is the match or None.
GteOfKey(sorted_input_versions, key_matcher) ==
    IF IsNone(key_matcher)
    THEN Raised("AnsibleFilterError", "match key is not valid")
    ELSE IF key_matcher.val.decorator.present
    THEN Raised("AnsibleFilterError", "match key contains a decorator")
    ELSE Returned(PyList(SubSeq(sorted_input_versions,
                                GteStart(sorted_input_versions, key_matcher.val),
                                Len(sorted_input_versions))))

match_gte(sorted_input_versions, key) ==
    GteOfKey(sorted_input_versions, version_key_fullmatch(key))

\* LtePointCond with < for <=: the record at the key is left out.
LtePointCondExclusive(v, wanted_major_version, wanted_minor_version, wanted_point_version) ==
    /\ v.major = wanted_major_version
    /\ v.minor = wanted_minor_version
    /\ v.point < wanted_point_version

LtePointCond(v, wanted_major_version, wanted_minor_version, wanted_point_version) ==
    /\ v.major = wanted_major_version
    /\ v.minor = wanted_minor_version
    /\ v.point <= wanted_point_version

\* The loop of a key x.y: it compares the minor alone.
LteAllPointsCond(v, wanted_major_version, wanted_minor_version) ==
    v.minor = wanted_minor_version

\* The loop of a key x.
LteAllMinorsCond(v, wanted_major_version) == v.major = wanted_major_version

\* The loops of match_lte, one after the other, for the groups g of the
\* key; the last loop is the one the branch of the key's shape runs.
LteStop(vs, g) ==
    LET C1(v) == MajorBelowCond(v, IntOf(g.major.text))
        C2(v) == /\ g.minor.present
                 /\ MinorBelowCond(v, IntOf(g.major.text), IntOf(g.minor.text))
        C3(v) == IF g.minor.present
                 THEN IF g.point.present
                      THEN LtePointCond(v, IntOf(g.major.text), IntOf(g.minor.text),
                                        IntOf(g.point.text))
                      ELSE LteAllPointsCond(v, IntOf(g.major.text), IntOf(g.minor.text))
                 ELSE LteAllMinorsCond(v, IntOf(g.major.text))
        Of(j)  == vs[j]
        cond1  == [j \in 1..Len(vs) |-> C1(Of(j))]
        cond2  == [j \in 1..Len(vs) |-> C2(Of(j))]
        cond3  == [j \in 1..Len(vs) |-> C3(Of(j))]
    IN  AdvanceWhile(cond3, AdvanceWhile(cond2, AdvanceWhile(cond1, 1)))

\* match_lte once the key is matched: key_matcher is the match or None.
LteOfKey(sorted_input_versions, key_matcher) ==
    IF IsNone(key_matcher)
    THEN Raised("AnsibleFilterError", "match key is not valid")
    ELSE IF key_matcher.val.decorator.present
    THEN Raised("AnsibleFilterError", "match key contains a decorator")
    ELSE Returned(PyList(SubSeq(sorted_input_versions, 1,
                                LteStop(sorted_input_versions, key_matcher.val) - 1)))

match_lte(sorted_input_versions, key) ==
    LteOfKey(sorted_input_versions, version_key_fullmatch(key))

\* ------------------------------------------------- github_release_version

\* len(input_to_process) == 0.
IsEmptyInput(items) == Len(items) = 0

\* Projected with normalize passed over: the full label whatever it is.
ProjectedFullLabel(x, normalize) == x.full_label

\* The element reported for a matching version.
Projected(x, normalize) ==
    IF normalize THEN x.stripped_version_label ELSE x.full_label

\* The values a call ends with: its locals and its outcome (the list
\* returned, or the error raised).
Ended(sorted, matching, o) ==
    [sorted_input_versions |-> sorted, matching_versions |-> matching, outcome |-> o]

\* The if/elif chain over criteria.
Dispatched(sorted_input_versions, criteria, args) ==
    IF criteria = "latest" THEN match_latest(sorted_input_versions)
    ELSE IF criteria \notin {"gte", "lte", "eq"}
    THEN Raised("AnsibleFilterError", "criteria not understood")
    ELSE IF Len(args) # 1
    THEN Raised("AnsibleFilterError", "requires a version")
    ELSE IF criteria = "gte" THEN match_gte(sorted_input_versions, args[1])
    ELSE IF criteria = "lte" THEN match_lte(sorted_input_versions, args[1])
    ELSE match_eq(sorted_input_versions, args[1])

\* The comprehension of the return statement over what was matched.
Reported(matching_versions, normalize) ==
    [i \in 1..Len(PyIter(matching_versions)) |->
        Projected(PyIter(matching_versions)[i], normalize)]

\* The end of the call, from what the dispatch gave.
AfterDispatch(sorted_input_versions, matched, normalize) ==
    IF matched.raised
    THEN Ended(sorted_input_versions, PyList(<<>>), matched)
    ELSE Ended(sorted_input_versions, matched.value,
               Returned(PyList(Reported(matched.value, normalize))))

\* The call from the decorator filter on.
AfterSort(sorted_input_versions, criteria, args, normalize) ==
    AfterDispatch(sorted_input_versions,
                  Dispatched(sorted_input_versions, criteria, args), normalize)

\* The call from the result of sort_versions_ascending on.
AfterParse(parsed, criteria, args, include_decorated_versions, normalize) ==
    IF parsed.raised THEN Ended(<<>>, PyList(<<>>), parsed)
    ELSE AfterSort(IF ~include_decorated_versions
                   THEN filter_out_decorated_versions_from(parsed.value.val)
                   ELSE parsed.value.val,
                   criteria, args, normalize)

github_release_version(input_to_process, criteria, args, include_decorated_versions, normalize) ==
    IF ~input_to_process.is_sequence
    THEN Ended(<<>>, PyList(<<>>),
               Raised("AnsibleFilterTypeError", "requires a sequence input"))
    ELSE IF IsEmptyInput(input_to_process.items)
    THEN Ended(<<>>, PyList(<<>>), Returned(PyList(<<>>)))
    ELSE AfterParse(sort_versions_ascending(input_to_process.items),
                    criteria, args, include_decorated_versions, normalize)

\* ----------------------------------------------------------------- inputs

\* The version numbers of the generated labels and keys.
VersionNumbers == {0, 1}

DigitChar(n) == CHOOSE c \in Digits : DigitVal(c) = n

Dotted1(a) == <<DigitChar(a)>>
Dotted2(a, b) == <<DigitChar(a), ".", DigitChar(b)>>
Dotted3(a, b, c) == <<DigitChar(a), ".", DigitChar(b), ".", DigitChar(c)>>

Alpha == <<"-", "a", "l", "p", "h", "a">>

\* Labels as the releases of a repository carry them: vX.Y.Z for every
\* version, two pre-releases (one of them in the shape of a key), a label
\* with free text before the version, and a label with no version in it.
LabelPool ==
    {<<"v">> \o Dotted3(a, b, c) : a \in VersionNumbers, b \in VersionNumbers, c \in VersionNumbers}
    \cup {Dotted3(1, 0, 0) \o Alpha,
          <<"v">> \o Dotted3(2, 0, 0) \o Alpha,
          <<"H", "e", "l", "m", " ", "v">> \o Dotted3(0, 1, 1),
          <<"r", "e", "l", "e", "a", "s", "e", "-", "x">>}

\* Keys: X, X.Y and X.Y.Z for every version, a decorated key, and texts
\* that are no key.
GoodKeys ==
    {Dotted1(a) : a \in VersionNumbers}
    \cup {Dotted2(a, b) : a \in VersionNumbers, b \in VersionNumbers}
    \cup {Dotted3(a, b, c) : a \in VersionNumbers, b \in VersionNumbers, c \in VersionNumbers}

KeyPool ==
    GoodKeys
    \cup {Dotted3(1, 0, 0) \o Alpha,
          <<"a", "b", "c">>,
          <<"v", "1">>,
          <<"1">> \o Alpha,
          <<"1", ".", "1", "-", "b", "e", "t", "a">>}

\* *args: no key, one key, or one key too many.
ArgsPool == {<<>>, <<Dotted1(1), Dotted1(1)>>} \cup {<<k>> : k \in KeyPool}

\* The arguments tried with the criteria that read none.
NoKeyArgsPool == {<<>>, <<Dotted1(1)>>}

LabelLists == UNION {[1..n -> LabelPool] : n \in 0..MaxLabels}

\* A value that is no sequence (a number, a mapping).
NotASequence == [is_sequence |-> FALSE, items |-> <<>>]

InputPool == {[is_sequence |-> TRUE, items |-> l] : l \in LabelLists} \cup {NotASequence}

\* The characters of the key texts of the key-parser specification.
KeyAlphabet == {"1", ".", "-", "v", NL}

KeyTexts == UNION {[1..n -> KeyAlphabet] : n \in 0..MaxKeyLen}

\* ------------------------------------------------------------------ state

VARIABLES
    pc,                          \* "ready", "done"; "key", "parsed"
    input_to_process,            \* the input of the call
    criteria,                    \* the criteria of the call
    args,                        \* the positional arguments after criteria
    include_decorated_versions,  \* keyword argument
    normalize,                   \* keyword argument
    sorted_input_versions,       \* the local of the call, when it ended
    matching_versions,           \* the local of the call, when it ended
    key_matcher,                 \* what version_key_matcher.fullmatch gave
    outcome                      \* the list returned or the error raised

vars == <<pc, input_to_process, criteria, args, include_decorated_versions,
          normalize, sorted_input_versions, matching_versions, key_matcher, outcome>>

NoOutcome == [raised |-> FALSE, error |-> "", message |-> "pending", value |-> PyNone]

Init ==
    /\ pc = "ready"
    /\ input_to_process \in InputPool
    /\ criteria = ""
    /\ args = <<>>
    /\ include_decorated_versions = FALSE
    /\ normalize = TRUE
    /\ sorted_input_versions = <<>>
    /\ matching_versions = PyList(<<>>)
    /\ key_matcher = PyNone
    /\ outcome = NoOutcome

\* The state after the filter was applied to the input with the given
\* criteria and arguments.
Called(c, a, inc, norm) ==
    /\ \E r \in {github_release_version(input_to_process, c, a, inc, norm)} :
          /\ sorted_input_versions' = r.sorted_input_versions
          /\ matching_versions' = r.matching_versions
          /\ outcome' = r.outcome
    /\ pc' = "done"
    /\ criteria' = c
    /\ args' = a
    /\ include_decorated_versions' = inc
    /\ normalize' = norm
    /\ UNCHANGED <<input_to_process, key_matcher>>

CallLatest ==
    /\ pc = "ready"
    /\ \E a \in NoKeyArgsPool, inc \in BOOLEAN, norm \in BOOLEAN : Called("latest", a, inc, norm)

CallGte ==
    /\ pc = "ready"
    /\ \E a \in ArgsPool, inc \in BOOLEAN, norm \in BOOLEAN : Called("gte", a, inc, norm)

CallLte ==
    /\ pc = "ready"
    /\ \E a \in ArgsPool, inc \in BOOLEAN, norm \in BOOLEAN : Called("lte", a, inc, norm)

CallEq ==
    /\ pc = "ready"
    /\ \E a \in ArgsPool, inc \in BOOLEAN, norm \in BOOLEAN : Called("eq", a, inc, norm)

\* A criteria the filter does not know.
CallOther ==
    /\ pc = "ready"
    /\ \E a \in NoKeyArgsPool, inc \in BOOLEAN, norm \in BOOLEAN : Called("newest", a, inc, norm)

Next == CallLatest \/ CallGte \/ CallLte \/ CallEq \/ CallOther

Spec == Init /\ [][Next]_vars

\* The calls with one of the four criteria the function matches with (the
\* branches that give matching_versions a value), for what is said of the
\* lists they return.
NextMatching == CallLatest \/ CallGte \/ CallLte \/ CallEq

SpecMatching == Init /\ [][NextMatching]_vars

\* ------------------------------------------- the key parser on its own

InitKey ==
    /\ pc = "key"
    /\ input_to_process = [is_sequence |-> TRUE, items |-> <<>>]
    /\ criteria = ""
    /\ args \in {<<k>> : k \in KeyTexts}
    /\ include_decorated_versions = FALSE
    /\ normalize = TRUE
    /\ sorted_input_versions = <<>>
    /\ matching_versions = PyList(<<>>)
    /\ key_matcher = PyNone
    /\ outcome = NoOutcome

\* version_key_matcher.fullmatch(key) on the key text.
ParseKey ==
    /\ pc = "key"
    /\ pc' = "parsed"
    /\ key_matcher' = version_key_fullmatch(args[1])
    /\ UNCHANGED <<input_to_process, criteria, args, include_decorated_versions,
                   normalize, sorted_input_versions, matching_versions, outcome>>

NextKey == ParseKey

SpecKey == InitKey /\ [][NextKey]_vars

\* ------------------------------------------------ what the claims speak of

\* The call has ended.
Done == pc = "done"

\* The call ended by raising on a label that is not in the accepted format.
LabelError ==
    outcome.raised /\ outcome.message = "incoming version is not in accepted format"

\* A text of one or more digits.
IsNumber(t) == Len(t) >= 1 /\ \A i \in 1..Len(t) : t[i] \in Digits

\* How many numeric components separated by '.' the text is made of; 0 when
\* it is not made of such components.
NumComponents(t) ==
    IF /\ Len(t) >= 1
       /\ \A i \in 1..Len(t) : t[i] \in Digits \cup {"."}
       /\ t[1] # "." /\ t[Len(t)] # "."
       /\ \A i \in 1..(Len(t) - 1) : ~(t[i] = "." /\ t[i + 1] = ".")
    THEN Cardinality({i \in 1..Len(t) : t[i] = "."}) + 1
    ELSE 0

\* The key grammar as the code has it: 1, 2 or 3 numeric components, and
\* after the third an optional '-' with one or more characters, none a line
\* break.
ConformsToKeyGrammar(t) ==
    \E e \in 1..Len(t) :
        /\ NumComponents(SubSeq(t, 1, e)) \in 1..3
        /\ \/ e = Len(t)
           \/ /\ NumComponents(SubSeq(t, 1, e)) = 3
              /\ Len(t) >= e + 2
              /\ t[e + 1] = "-"
              /\ \A j \in (e + 2)..Len(t) : t[j] # NL

\* The key grammar as the specification words it: an optional leading 'v',
\* 1, 2 or 3 numeric components, and after the last one present an optional
\* '-' with one or more characters.
ConformsToStatedKeyGrammar(t) ==
    \E b \in {1} \cup {i \in {2} : Len(t) >= 1 /\ t[1] = "v"} :
        \E e \in b..Len(t) :
            /\ NumComponents(SubSeq(t, b, e)) \in 1..3
            /\ \/ e = Len(t)
               \/ Len(t) >= e + 2 /\ t[e + 1] = "-"

\* The groups of the one key of the call.
KeyGroups == version_key_fullmatch(args[1]).val

\* What fullmatch gave is a key without a decorator.
IsPlainKey(k) == ~IsNone(k) /\ ~k.val.decorator.present

\* What fullmatch gave is a key with a decorator.
IsDecoratedKey(k) == ~IsNone(k) /\ k.val.decorator.present

\* The call has one key, which is a key without a decorator.
HasPlainKey == Len(args) = 1 /\ IsPlainKey(version_key_fullmatch(args[1]))

\* The (major, minor, point) of the groups of a key, as far as it gives them.
KeyTupleOf(g) ==
    <<IntOf(g.major.text)>>
    \o (IF g.minor.present THEN <<IntOf(g.minor.text)>> ELSE <<>>)
    \o (IF g.point.present THEN <<IntOf(g.point.text)>> ELSE <<>>)

\* The (major, minor, point) of the key of the call.
KeyTuple == KeyTupleOf(KeyGroups)

\* The (major, minor, point) of a record, cut to its first n fields.
TupleOf(r, n) == SubSeq(<<r.major, r.minor, r.point>>, 1, n)

\* Lexicographic order on tuples of numbers of the same length.
LexLT(x, y) ==
    \E i \in 1..Len(x) : x[i] < y[i] /\ \A j \in 1..(i - 1) : x[j] = y[j]

LexLE(x, y) == x = y \/ LexLT(x, y)

\* The record compared with the key tuple k on the fields the key gives.
AtMostKey(r, k) == LexLE(TupleOf(r, Len(k)), k)
AtLeastKey(r, k) == LexLE(k, TupleOf(r, Len(k)))
EqualsKey(r, k) == TupleOf(r, Len(k)) = k

\* The list is in ascending (major, minor, point) order.
Ascending(l) ==
    \A i \in 1..(Len(l) - 1) : LexLE(TupleOf(l[i], 3), TupleOf(l[i + 1], 3))

\* The call was made with this criteria and a key without a decorator on a
\* list of parsable labels.
PlainKeyCall(c) ==
    /\ Done
    /\ criteria = c
    /\ input_to_process.is_sequence
    /\ ~LabelError
    /\ HasPlainKey

\* ----------------------------------------------------------------- claims

\* C1: for every list of parsable labels and every undecorated key, 'lte'
\* returns exactly the records of the sorted, decorator-filtered list whose
\* (major, minor, point), cut to the fields the key gives, is <= the key.
\* In particular no record with a greater major is returned.
C1_LteReturnsRecordsAtMostKey ==
    PlainKeyCall("lte") =>
        /\ ~outcome.raised
        /\ LET k == KeyTuple
               Test(r) == AtMostKey(r, k)
           IN  matching_versions.val = SelectSeq(sorted_input_versions, Test)

\* C2: for every list of parsable labels and every undecorated key, 'gte'
\* returns exactly the suffix of the sorted, decorator-filtered list that
\* starts at the first record whose (major, minor, point), cut to the fields
\* the key gives, is >= the key: every record before it is excluded, every
\* record from it on is included.
C2_GteReturnsSuffixFromFirstAtLeastKey ==
    PlainKeyCall("gte") =>
        /\ ~outcome.raised
        /\ Ascending(sorted_input_versions)
        /\ LET k     == KeyTuple
               n     == Len(sorted_input_versions)
               first == CHOOSE i \in 1..(n + 1) :
                            /\ i = n + 1 \/ AtLeastKey(sorted_input_versions[i], k)
                            /\ \A j \in 1..(i - 1) : ~AtLeastKey(sorted_input_versions[j], k)
           IN  matching_versions.val = SubSeq(sorted_input_versions, first, n)

\* C2's case: a 'gte' call that leaves out a record and returns another.
C2_Witness ==
    /\ PlainKeyCall("gte")
    /\ Len(matching_versions.val) >= 1
    /\ Len(matching_versions.val) < Len(sorted_input_versions)
    /\ Len(outcome.value.val) = Len(matching_versions.val)

\* C3: for every list of parsable labels and every undecorated key, 'eq'
\* returns exactly the records of the sorted, decorator-filtered list whose
\* major, minor (when the key gives one) and point (when the key gives one)
\* equal the key's, in ascending order; the empty list when none does.
C3_EqReturnsRecordsEqualToKey ==
    PlainKeyCall("eq") =>
        /\ ~outcome.raised
        /\ Ascending(matching_versions.val)
        /\ LET k == KeyTuple
               Test(r) == EqualsKey(r, k)
           IN  matching_versions.val = SelectSeq(sorted_input_versions, Test)

\* C3's case: an 'eq' call with a key major.minor that returns a record
\* and leaves out another.
C3_Witness ==
    /\ PlainKeyCall("eq")
    /\ Len(KeyTuple) = 2
    /\ Len(matching_versions.val) >= 1
    /\ Len(matching_versions.val) < Len(sorted_input_versions)

\* C4: with criteria 'eq', a key that carries a decorator and
\* include_decorated_versions true, the result contains every record whose
\* original label equals the literal key text: an input that holds the
\* label '1.0.0-alpha' gives a non-empty result for the key '1.0.0-alpha'.
C4_EqDecoratedKeyReturnsEqualLabels ==
    ( /\ Done
      /\ criteria = "eq"
      /\ include_decorated_versions
      /\ input_to_process.is_sequence
      /\ Len(args) = 1
      /\ ~LabelError
      /\ IsDecoratedKey(version_key_fullmatch(args[1])) )
    => /\ ~outcome.raised
       /\ \A i \in 1..Len(input_to_process.items) :
              input_to_process.items[i] = args[1]
              => \E j \in 1..Len(PyIter(matching_versions)) :
                     PyIter(matching_versions)[j].full_label = args[1]

\* Whether the (parsable) label has a decorator.
IsDecoratedLabel(l) == version_name_search(l).val.decorator.present

\* The (major, minor, point) of the (parsable) label.
TupleOfLabel(l) ==
    <<IntOf(version_name_search(l).val.major.text),
      IntOf(version_name_search(l).val.minor.text),
      IntOf(version_name_search(l).val.point.text)>>

\* The positions of the input whose record the decorator filter leaves in
\* the list.
Surviving ==
    {i \in 1..Len(input_to_process.items) :
        include_decorated_versions \/ ~IsDecoratedLabel(input_to_process.items[i])}

\* C5: 'latest' returns the empty list when the input is empty or every
\* record is removed by the decorator filter, and otherwise exactly one
\* element, a record of the filtered list whose (major, minor, point) is the
\* maximum over it.
C5_LatestReturnsMaximumOrNothing ==
    (Done /\ criteria = "latest" /\ input_to_process.is_sequence /\ ~LabelError)
    => /\ ~outcome.raised
       /\ outcome.value.type = "list"
       /\ IF Surviving = {}
          THEN outcome.value.val = <<>>
          ELSE /\ Len(outcome.value.val) = 1
               /\ Len(PyIter(matching_versions)) = 1
               /\ \E i \in Surviving :
                      /\ input_to_process.items[i] = PyIter(matching_versions)[1].full_label
                      /\ outcome.value.val[1] \in
                             {input_to_process.items[i],
                              PyIter(matching_versions)[1].stripped_version_label}
               /\ \A i \in Surviving :
                      LexLE(TupleOfLabel(input_to_process.items[i]),
                            TupleOf(PyIter(matching_versions)[1], 3))

\* C5's case: 'latest' on a list whose first label is the maximum and whose
\* other label is smaller.
C5_Witness ==
    /\ Done
    /\ criteria = "latest"
    /\ ~outcome.raised
    /\ Len(sorted_input_versions) = 2
    /\ Len(outcome.value.val) = 1
    /\ matching_versions.val[1].full_label = input_to_process.items[1]
    /\ LexLT(TupleOf(sorted_input_versions[1], 3), TupleOf(sorted_input_versions[2], 3))

\* The input without its decorated labels.
UndecoratedInput ==
    LET Plain(l) == ~IsDecoratedLabel(l)
    IN  [is_sequence |-> TRUE, items |-> SelectSeq(input_to_process.items, Plain)]

\* Some label of the input has a '-' (a label without one has no decorator,
\* and an input without such labels is its own UndecoratedInput).
HasDashedLabel ==
    \E i \in 1..Len(input_to_process.items) :
        \E j \in 1..Len(input_to_process.items[i]) : input_to_process.items[i][j] = "-"

\* The labels of the example of C6.
ExampleV100 == <<"v">> \o Dotted3(1, 0, 0)
ExampleV200Alpha == <<"v">> \o Dotted3(2, 0, 0) \o Alpha

\* C6: with include_decorated_versions false no returned element comes from
\* a decorated record, and the decorated labels of the input do not change
\* what is returned: the call returns what it returns on the input without
\* them.  With include_decorated_versions true the decorated records are in
\* the list that is matched: 'latest' on ['v1.0.0', 'v2.0.0-alpha'] returns
\* the 2.0.0-alpha record.
C6_DecoratedRecordsFilteredUnlessIncluded ==
    (Done /\ input_to_process.is_sequence /\ ~outcome.raised)
    => /\ ~include_decorated_versions
          => /\ \A j \in 1..Len(PyIter(matching_versions)) :
                    PyIter(matching_versions)[j].decorator = <<>>
             /\ HasDashedLabel
                => outcome = github_release_version(UndecoratedInput, criteria, args,
                                                    FALSE, normalize).outcome
       /\ include_decorated_versions
          => /\ Len(sorted_input_versions) = Len(input_to_process.items)
             /\ ( /\ criteria = "latest"
                  /\ input_to_process.items = <<ExampleV100, ExampleV200Alpha>> )
                => /\ matching_versions.val[1].full_label = ExampleV200Alpha
                   /\ normalize => outcome.value.val = <<Dotted3(2, 0, 0) \o Alpha>>

\* C6's case: a call without include_decorated_versions on an input that
\* holds a decorated label and a label that is returned.
C6_Witness ==
    /\ Done
    /\ ~include_decorated_versions
    /\ ~outcome.raised
    /\ Len(outcome.value.val) >= 1
    /\ Len(sorted_input_versions) < Len(input_to_process.items)

\* C7 as stated: for 'eq', 'gte' and 'lte' and every input list, the empty
\* list included, a key that does not conform to the key grammar makes the
\* call fail with an error.
C7_NonConformingKeyFails ==
    ( /\ Done
      /\ criteria \in {"eq", "gte", "lte"}
      /\ input_to_process.is_sequence
      /\ Len(args) = 1
      /\ ~ConformsToKeyGrammar(args[1]) )
    => outcome.raised

\* C7 as amended: the same for every non-empty input list (on the empty
\* list the call returns the empty list before it reads the key).
C7_NonConformingKeyFailsOnNonEmptyInput ==
    ( /\ Done
      /\ criteria \in {"eq", "gte", "lte"}
      /\ input_to_process.is_sequence
      /\ Len(input_to_process.items) >= 1
      /\ Len(args) = 1
      /\ ~ConformsToKeyGrammar(args[1]) )
    => outcome.raised /\ outcome.value = PyNone

\* C7's case: the key 'abc' on a non-empty list of parsable labels.
C7_Witness ==
    /\ Done
    /\ criteria = "gte"
    /\ args = << <<"a", "b", "c">> >>
    /\ Len(input_to_process.items) >= 1
    /\ ~LabelError
    /\ outcome.raised

\* A decorator after the version, up to the end of the label: one or more
\* characters, none a line break, a final line break apart.
IsDecoratorTail(d) ==
    LET core == IF Len(d) >= 1 /\ d[Len(d)] = NL THEN SubSeq(d, 1, Len(d) - 1) ELSE d
    IN  Len(core) >= 1 /\ \A j \in 1..Len(core) : core[j] # NL

\* The label has a substring that matches the version pattern: three
\* numeric components, then the end of the label or a decorator up to it.
HasVersionSubstring(l) ==
    \E e \in 1..Len(l) :
        /\ \/ e = Len(l)
           \/ e = Len(l) - 1 /\ l[Len(l)] = NL
           \/ l[e + 1] = "-" /\ IsDecoratorTail(SubSeq(l, e + 2, Len(l)))
        /\ \E i \in 1..e : NumComponents(SubSeq(l, i, e)) = 3

\* C8: if one label of a non-empty input list has no substring matching the
\* version pattern, the whole call fails with an error and returns no
\* partial result, whatever the other labels, the criteria, the key and the
\* two flags are.  (Stated from its other end: a call that does not end
\* with an error and nothing returned had only labels with a version.)
C8_UnparsableLabelFailsWholeCall ==
    ( /\ Done
      /\ input_to_process.is_sequence
      /\ ~(outcome.raised /\ outcome.value = PyNone /\ PyIter(matching_versions) = <<>>) )
    => \A i \in 1..Len(input_to_process.items) :
           HasVersionSubstring(input_to_process.items[i])

\* C8's case: a label without a version beside a label with one.
C8_Witness ==
    /\ Done
    /\ Len(input_to_process.items) = 2
    /\ ~HasVersionSubstring(input_to_process.items[1])
    /\ HasVersionSubstring(input_to_process.items[2])
    /\ criteria = "newest"
    /\ outcome.raised

\* C9: for every list of parsable labels and every key major.minor.point
\* without a decorator, 'gte' and 'lte' of the key cover the sorted,
\* decorator-filtered list with no gap, and a record is in both results
\* exactly when its (major, minor, point) is the key.
C9_GteAndLteCoverAndMeetAtKey ==
    ( /\ Done
      /\ criteria \in {"gte", "lte"}
      /\ input_to_process.is_sequence
      /\ ~LabelError
      /\ HasPlainKey
      /\ Len(KeyTuple) = 3 )
    => /\ ~outcome.raised
       /\ LET G == match_gte(sorted_input_versions, args[1]).value.val
              L == match_lte(sorted_input_versions, args[1]).value.val
              n == Len(sorted_input_versions)
          IN  /\ matching_versions.val = IF criteria = "gte" THEN G ELSE L
              /\ L = SubSeq(sorted_input_versions, 1, Len(L))
              /\ G = SubSeq(sorted_input_versions, n - Len(G) + 1, n)
              /\ \A i \in 1..n :
                     /\ i <= Len(L) \/ i > n - Len(G)
                     /\ (i <= Len(L) /\ i > n - Len(G))
                        <=> TupleOf(sorted_input_versions[i], 3) = KeyTuple

\* C9's case: a list with a record at the key and a record above it.
C9_Witness ==
    /\ Done
    /\ criteria = "lte"
    /\ HasPlainKey
    /\ ~outcome.raised
    /\ Len(KeyTuple) = 3
    /\ Len(sorted_input_versions) = 2
    /\ TupleOf(sorted_input_versions[1], 3) = KeyTuple
    /\ TupleOf(sorted_input_versions[2], 3) # KeyTuple

\* C10 as stated: the key parser accepts exactly the texts made of 1, 2 or
\* 3 numeric components separated by '.', with an optional leading 'v' and
\* an optional '-decorator' after the last component present.
C10_KeyParserAcceptsStatedGrammar ==
    pc = "parsed" => (~IsNone(key_matcher) <=> ConformsToStatedKeyGrammar(args[1]))

\* C10 as amended: the key parser accepts exactly the texts made of 1, 2 or
\* 3 numeric components separated by '.', without a leading 'v', with an
\* optional '-decorator' (one or more characters, none a line break) after
\* the third component only; it gives the components as its groups.
C10_KeyParserAcceptsCodeGrammar ==
    pc = "parsed"
    => /\ ~IsNone(key_matcher) <=> ConformsToKeyGrammar(args[1])
       /\ ~IsNone(key_matcher)
          => /\ IsNumber(key_matcher.val.major.text)
             /\ key_matcher.val.minor.present => IsNumber(key_matcher.val.minor.text)
             /\ key_matcher.val.point.present => IsNumber(key_matcher.val.point.text)
             /\ key_matcher.val.decorator.present => key_matcher.val.point.present
             /\ key_matcher.val.point.present => key_matcher.val.minor.present

\* C10's case: a key with three components and a decorator is accepted.
C10_Witness ==
    /\ pc = "parsed"
    /\ ~IsNone(key_matcher)
    /\ key_matcher.val.decorator.present

\* The text is a key that carries a decorator: it conforms to the key
\* grammar and has a '-' (which the grammar has only before a decorator).
IsDecoratedKeyText(t) ==
    /\ \E j \in 1..Len(t) : t[j] = "-"
    /\ ConformsToKeyGrammar(t)

\* C11: for 'gte' and 'lte', on every non-empty list of parsable labels and
\* whatever include_decorated_versions and normalize are, a key that carries
\* a decorator makes the call fail with an error: no list is returned.
C11_GteLteDecoratedKeyFails ==
    ( /\ Done
      /\ criteria \in {"gte", "lte"}
      /\ input_to_process.is_sequence
      /\ Len(input_to_process.items) >= 1
      /\ Len(args) = 1
      /\ IsDecoratedKeyText(args[1])
      /\ \A i \in 1..Len(input_to_process.items) :
             HasVersionSubstring(input_to_process.items[i]) )
    => /\ outcome.raised
       /\ outcome.error = "AnsibleFilterError"
       /\ outcome.value = PyNone
       /\ PyIter(matching_versions) = <<>>

\* C11's case: 'lte' with the key '1.0.0-alpha' on a list that holds the
\* label '1.0.0-alpha', decorated records included, ends with the error of
\* the decorator.
C11_Witness ==
    /\ Done
    /\ criteria = "lte"
    /\ args = <<Dotted3(1, 0, 0) \o Alpha>>
    /\ include_decorated_versions
    /\ ~normalize
    /\ \E i \in 1..Len(input_to_process.items) : input_to_process.items[i] = args[1]
    /\ outcome.raised
    /\ outcome.message = "match key contains a decorator"

\* The text is the MAJOR.MINOR.POINT[-DECORATOR] form of the record: three
\* numeric components with the record's values, and then nothing or a '-'
\* and the record's decorator.
IsNormalizedFormOf(t, rec) ==
    \E e \in 1..Len(t) :
        /\ e = Len(t) \/ t[e + 1] = "-"
        /\ NumComponents(SubSeq(t, 1, e)) = 3
        /\ LET d1 == CHOOSE i \in 1..e :
                         t[i] = "." /\ \A j \in 1..(i - 1) : t[j] # "."
               d2 == CHOOSE i \in (d1 + 1)..e : t[i] = "."
           IN  /\ IntOf(SubSeq(t, 1, d1 - 1)) = rec.major
               /\ IntOf(SubSeq(t, d1 + 1, d2 - 1)) = rec.minor
               /\ IntOf(SubSeq(t, d2 + 1, e)) = rec.point
        /\ IF e = Len(t)
           THEN rec.decorator = <<>>
           ELSE /\ t[e + 1] = "-"
                /\ Len(t) >= e + 2
                /\ rec.decorator = SubSeq(t, e + 2, Len(t))

\* The text is a part of the label.
IsPartOf(t, l) ==
    \E i \in 1..(Len(l) - Len(t) + 1) : SubSeq(l, i, i + Len(t) - 1) = t

\* The text parses back to the (major, minor, point, decorator) of the record.
ParsesBackTo(t, rec) ==
    \A m \in {version_name_search(t)} :
        /\ ~IsNone(m)
        /\ VersionInfo(t, m.val) = [rec EXCEPT !.full_label = t]
        /\ rec.stripped_version_label = t

\* The lists the two calls return, the one with normalize and the one
\* without, are the two projections of the same records.
SameRecordsProjected(normalized, raw, records) ==
    /\ normalized.type = "list" /\ raw.type = "list"
    /\ Len(normalized.val) = Len(records)
    /\ Len(raw.val) = Len(records)
    /\ \A i \in 1..Len(records) :
           /\ raw.val[i] = records[i].full_label
           /\ \E j \in 1..Len(input_to_process.items) :
                  input_to_process.items[j] = raw.val[i]
           /\ IsNormalizedFormOf(normalized.val[i], records[i])
           /\ IsPartOf(normalized.val[i], raw.val[i])
           /\ ParsesBackTo(normalized.val[i], records[i])

====
